---------------------------- MODULE Spec2Model ----------------------------
(***************************************************************************)
(* A model of the Redis response cache of the Portkey gateway demos        *)
(* (demos/caching/redis_caching_demo.py): the cache key derivation, the    *)
(* RedisCache get/set/clear operations against a shared Redis server, the  *)
(* get-or-compute request make_cached_chat_request, the test functions and *)
(* main(); and of the metrics objects of the fallback and load-balance     *)
(* demos.                                                                  *)
(*                                                                         *)
(* The specifications share the variables:                                 *)
(*   SpecKey        get_cache_key applied to request descriptors           *)
(*   SpecStore      RedisCache.get / RedisCache.set called directly        *)
(*   Spec           a caller running make_cached_chat_request step by step *)
(*   SpecRace       two processes running it against the same server       *)
(*   SpecClear      RedisCache.__init__ and RedisCache.clear               *)
(*   SpecClearRace  clear() while another client writes and deletes keys   *)
(*   SpecClearFair  the same, clear() always getting to take its next step *)
(*   SpecIntegrity  requests of two processes and clear(), the upstream's  *)
(*                  answers recorded per request                           *)
(*   SpecHarness    run_cache_persistence_test on a disturbed server       *)
(*   SpecTiming     the two cached test functions, any measured latency    *)
(*   SpecMain       main() from the built cache to the end of the process  *)
(*   SpecMetrics    FallbackMetrics and LoadBalanceMetrics recording       *)
(***************************************************************************)
EXTENDS Integers, Sequences, FiniteSets, TLC

VARIABLES
    store,      \* the Redis server: key -> [raw, exp]; absent keys are not in DOMAIN
    now,        \* the server clock, in seconds
    up,         \* whether the server answers (FALSE: every command raises RedisError)
    cfg,        \* the provider configuration chosen by --provider
    pc,         \* per caller: position inside make_cached_chat_request
    loc,        \* per caller: the locals of make_cached_chat_request
    res,        \* per caller: what the caller's last call returned or raised
    hist,       \* ghost: the last completed calls of an undisturbed sequential run
    api,        \* the last direct RedisCache call and what it returned
    wlog,       \* ghost: per key, the last write RedisCache.set got stored
    fp,         \* a request descriptor and the key get_cache_key gave it
    conn,       \* the RedisCache object: not built, built, or its construction failed
    clr,        \* the locals of RedisCache.clear and what it returned or raised
    run,        \* the locals of the test function that runs and the dict it returned
    prog,       \* main(): where it is, its results list, how the process ended
    fbm,        \* a FallbackMetrics object (demos/fallback/fallback_demo.py)
    lbm,        \* a LoadBalanceMetrics object (demos/load_balance/load_balance_demo.py)
    made        \* ghost: per tracked request, the payloads the upstream computed for it

vars ==
    <<store, now, up, cfg, pc, loc, res, hist, api, wlog, fp, conn, clr, run, prog, fbm, lbm,
      made>>

-----------------------------------------------------------------------------
(* Bounds of the model. *)

MaxMsgs == 2        \* longest message list given to get_cache_key
MaxParams == 2      \* most keyword parameters given to get_cache_key
MaxTicks == 2       \* the clock advances this many times
TickSeconds == 150  \* seconds per clock step

(* Program constants. *)

CACHE_MAX_AGE == 300    \* demos/config.py: default_ttl handed to RedisCache
NUM_REQUESTS == 5       \* run_cache_persistence_test: num_requests = 5
MAX_TOKENS == 100       \* params = {"max_tokens": 100}

-----------------------------------------------------------------------------
(* Python values, as far as json.dumps tells them apart.  A dict keeps its  *)
(* items in insertion order, as Python's does.                              *)

PyStr(s) == [t |-> "str", s |-> s]
PyInt(n) == [t |-> "int", n |-> n]
PyNone == [t |-> "none"]
PyList(items) == [t |-> "list", items |-> items]
PyDict(items) == [t |-> "dict", items |-> items]
Item(k, v) == [k |-> k, v |-> v]

(* JSON text, as json.dumps writes it: strings quoted, numbers in digits.   *)
(* The strings of the model hold no quote and no backslash, so quoting       *)
(* escapes nothing.                                                          *)

Quoted(s) == "\"" \o s \o "\""

(* Lexicographic order of the dict keys that occur, as Python's str order.  *)
KeyOrder ==
    << "choices", "content", "max_tokens", "message", "messages", "model",
       "params", "provider", "role", "temperature", "text" >>

KeyRank(s) == CHOOSE i \in 1..Len(KeyOrder) : KeyOrder[i] = s

RECURSIVE InsertByKey(_, _)
InsertByKey(it, sorted) ==
    IF sorted = <<>> THEN <<it>>
    ELSE IF KeyRank(it.k) < KeyRank(Head(sorted).k)
         THEN <<it>> \o sorted
         ELSE <<Head(sorted)>> \o InsertByKey(it, Tail(sorted))

(* the items as they were inserted *)
UnsortedItems(items) == items

(* sorted(d.items()): the items ordered by key (keys are unique). *)
RECURSIVE SortedItems(_)
SortedItems(items) ==
    IF items = <<>> THEN <<>>
    ELSE InsertByKey(items[Len(items)], SortedItems(SubSeq(items, 1, Len(items) - 1)))

RECURSIVE json_dumps(_, _)
RECURSIVE DumpList(_, _)
RECURSIVE DumpItems(_, _)

DumpList(items, sort_keys) ==
    IF items = <<>> THEN ""
    ELSE json_dumps(Head(items), sort_keys)
         \o (IF Len(items) > 1 THEN ", " ELSE "")
         \o DumpList(Tail(items), sort_keys)

DumpItems(items, sort_keys) ==
    IF items = <<>> THEN ""
    ELSE Quoted(Head(items).k) \o ": "
         \o json_dumps(Head(items).v, sort_keys)
         \o (IF Len(items) > 1 THEN ", " ELSE "")
         \o DumpItems(Tail(items), sort_keys)

json_dumps(v, sort_keys) ==
    CASE v.t = "str" -> Quoted(v.s)
      [] v.t = "int" -> ToString(v.n)
      [] v.t = "none" -> "null"
      [] v.t = "list" -> "[" \o DumpList(v.items, sort_keys) \o "]"
      [] v.t = "dict" ->
            "{"
            \o DumpItems(IF sort_keys THEN SortedItems(v.items) ELSE v.items, sort_keys)
            \o "}"

(* hashlib.sha256(...).hexdigest(), taken to be collision-free: the digest  *)
(* stands for the text it was computed from.                                *)
sha256_hexdigest(text) == "sha256(" \o text \o ")"

NAMESPACE == "llm_cache:"

MessageDict(m) == PyDict(<<Item("role", PyStr(m.role)), Item("content", PyStr(m.content))>>)

(* a key that leaves the model out *)
get_cache_key_without_model(provider, model, messages, kwargs) ==
    LET key_data == PyDict(<<
            Item("provider", PyStr(provider)),
            Item("messages", PyList([i \in 1..Len(messages) |-> MessageDict(messages[i])])),
            Item("params", PyDict(SortedItems(kwargs))) >>)
    IN  [ns |-> NAMESPACE, digest |-> sha256_hexdigest(json_dumps(key_data, TRUE))]

(* RedisCache.get_cache_key(provider, model, messages, **kwargs) *)
get_cache_key(provider, model, messages, kwargs) ==
    LET key_data == PyDict(<<
            Item("provider", PyStr(provider)),
            Item("model", PyStr(model)),
            Item("messages", PyList([i \in 1..Len(messages) |-> MessageDict(messages[i])])),
            Item("params", PyDict(SortedItems(kwargs))) >>)
        key_json == json_dumps(key_data, TRUE)
        key_hash == sha256_hexdigest(key_json)
    IN  [ns |-> NAMESPACE, digest |-> key_hash]

NoKey == [ns |-> "", digest |-> ""]

-----------------------------------------------------------------------------
(* The values a stored text can parse to.  A chat completion is kept as the *)
(* part of response.model_dump() the code reads back.                       *)

Contents == {"pong", " four "}

Completion(c) ==
    PyDict(<< Item("choices",
                PyList(<< PyDict(<< Item("message",
                                      PyDict(<<Item("content", PyStr(c))>>)) >>) >>)) >>)

EmptyDict == PyDict(<<>>)
TextDict == PyDict(<<Item("text", PyStr("pong"))>>)

JsonValues == {Completion(c) : c \in Contents} \cup {EmptyDict, TextDict, PyNone}

EmptyText == ""                 \* the empty string
GarbageText == "{\"choices\": ["    \* a document cut short
BinaryText == "\\xff"            \* the one byte 0xff: no UTF-8 text

(* the client is built with decode_responses=True: a reply is decoded as     *)
(* UTF-8 before client.get returns it                                        *)
Decodes(raw) == raw # BinaryText

Parses(raw) == \E v \in JsonValues : json_dumps(v, FALSE) = raw

(* a parser that trims the strings it reads *)
json_loads_trimmed(raw) ==
    LET v == CHOOSE v \in JsonValues : json_dumps(v, FALSE) = raw
    IN  IF v = Completion(" four ") THEN Completion("four") ELSE v

(* json.loads(raw), for a text that parses *)
json_loads(raw) == CHOOSE v \in JsonValues : json_dumps(v, FALSE) = raw

(* Python truthiness: bool(v) *)
Truthy(v) ==
    CASE v.t = "none" -> FALSE
      [] v.t = "str" -> v.s # ""
      [] v.t = "int" -> v.n # 0
      [] v.t \in {"list", "dict"} -> v.items # <<>>

(* str.strip() on the strings that occur *)
Strip(s) == IF s = " four " THEN "four" ELSE s

HasKey(v, k) == v.t = "dict" /\ \E i \in 1..Len(v.items) : v.items[i].k = k
Lookup(v, k) == v.items[CHOOSE i \in 1..Len(v.items) : v.items[i].k = k].v

(* v["choices"][0]["message"]["content"] is there and is a string *)
HasContent(v) ==
    /\ HasKey(v, "choices")
    /\ Lookup(v, "choices").t = "list"
    /\ Lookup(v, "choices").items # <<>>
    /\ HasKey(Lookup(v, "choices").items[1], "message")
    /\ HasKey(Lookup(Lookup(v, "choices").items[1], "message"), "content")
    /\ Lookup(Lookup(Lookup(v, "choices").items[1], "message"), "content").t = "str"

ContentOf(v) == Lookup(Lookup(Lookup(v, "choices").items[1], "message"), "content").s

-----------------------------------------------------------------------------
(* The Redis server, as the four commands the cache uses see it. *)

NoEntry == [present |-> FALSE, raw |-> EmptyText, exp |-> 0]

(* what the server holds at key k at time `now` *)
EntryAt(k) ==
    IF k \in DOMAIN store /\ now < store[k].exp
    THEN [present |-> TRUE, raw |-> store[k].raw, exp |-> store[k].exp]
    ELSE NoEntry

Live(k) == EntryAt(k).present

(* SETEX key seconds value : the server rejects seconds <= 0 *)
ValidExpire(seconds) == seconds > 0

Put(st, k, raw, exp) == [x \in DOMAIN st \cup {k} |-> IF x = k THEN [raw |-> raw, exp |-> exp] ELSE st[x]]

Drop(st, ks) == [x \in DOMAIN st \ ks |-> st[x]]

(* entries whose time has come are gone *)
Purge(st, t) == Drop(st, {k \in DOMAIN st : st[k].exp <= t})

-----------------------------------------------------------------------------
(* RedisCache.get and RedisCache.set *)

(* the exceptions `except (redis.RedisError, json.JSONDecodeError)` catches *)
GetCatches == {"RedisError", "JSONDecodeError"}

(* RedisCache.get(cache_key): [ret, raised, warned]; warned: the handler     *)
(* printed "Warning: Cache read error"                                       *)
CacheGet(k) ==
    LET cached == EntryAt(k)
        thrown == IF ~up THEN "RedisError"
                  ELSE IF cached.present /\ ~Decodes(cached.raw)
                       THEN "UnicodeDecodeError"
                  ELSE IF cached.present /\ cached.raw # EmptyText /\ ~Parses(cached.raw)
                       THEN "JSONDecodeError"
                       ELSE "none"
    IN  IF thrown # "none"
        THEN [ret |-> PyNone, raised |-> IF thrown \in GetCatches THEN "none" ELSE thrown,
              warned |-> thrown \in GetCatches]
        ELSE IF cached.present /\ cached.raw # EmptyText
             THEN [ret |-> json_loads(cached.raw), raised |-> "none", warned |-> FALSE]
             ELSE [ret |-> PyNone, raised |-> "none", warned |-> FALSE]

(* a read that starts the entry's time to live anew *)
GetRenews(st, k) ==
    IF k \in DOMAIN st /\ now < st[k].exp
    THEN Put(st, k, st[k].raw, now + CACHE_MAX_AGE)
    ELSE st

(* what self.client.get(cache_key) does to the server: GET leaves the entry  *)
(* and its expiry as they are                                                *)
GetLeaves(st, k) == st

(* ttl = ttl or self.default_ttl *)
TtlWithoutDefault(ttl, default_ttl) == IF ttl.t = "int" THEN ttl.n ELSE 0
TtlOrDefault(ttl, default_ttl) == IF Truthy(ttl) THEN ttl.n ELSE default_ttl

(* the exceptions `except redis.RedisError` catches *)
SetCatchesNothing == {}
SetCatches == {"RedisError"}

(* RedisCache.set(cache_key, response, ttl): [store, raised, warned]; warned: *)
(* the handler printed "Warning: Cache write error"                           *)
CacheSetNoop(k, response, ttl) == [store |-> store, raised |-> "none", warned |-> FALSE]
CacheSetIfAbsent(k, response, ttl) ==
    [store |-> IF EntryAt(k).present THEN store
               ELSE Put(store, k, json_dumps(response, FALSE), now + CACHE_MAX_AGE),
     raised |-> "none", warned |-> FALSE]
CacheSet(k, response, ttl) ==
    LET seconds == TtlOrDefault(ttl, CACHE_MAX_AGE)
        thrown == IF ~up \/ ~ValidExpire(seconds) THEN "RedisError" ELSE "none"
    IN  IF thrown # "none"
        THEN [store |-> store, raised |-> IF thrown \in SetCatches THEN "none" ELSE thrown,
              warned |-> thrown \in SetCatches]
        ELSE [store |-> Put(store, k, json_dumps(response, FALSE), now + seconds),
              raised |-> "none", warned |-> FALSE]

-----------------------------------------------------------------------------
(* Configuration (demos/config.py) and the callers. *)

OLLAMA_CONFIG ==
    [provider |-> "ollama", model |-> "llama3",
     custom_host |-> "http://portkey-gateway-ollama:11434"]

LLAMA_FP8_CONFIG ==
    [provider |-> "openai", model |-> "openai/llama-fp8",
     custom_host |-> "http://llama-fp8-predictor.hacohen-llmlite.svc.cluster.local:8080"]

get_provider_config(provider_name) ==
    IF provider_name = "llama-fp8" THEN LLAMA_FP8_CONFIG ELSE OLLAMA_CONFIG

ProviderNames == {"ollama", "llama-fp8"}
ProviderDefault == "ollama"     \* the default of --provider

Callers == {"c1", "c2"}
MainCallers == {"c1"}       \* the demo is one thread: its calls follow one another

TestMessages ==
    {"What is the capital of France? Answer in one word.", "What is 2+2? Answer in one word."}

UpstreamErrors == {"APIConnectionError"}

(* a key that leaves the message out *)
RequestKeyWithoutMessage(config, message) ==
    get_cache_key(config.provider, config.model, <<>>,
                  <<Item("max_tokens", PyInt(MAX_TOKENS))>>)

(* the key make_cached_chat_request derives for a message *)
RequestKey(config, message) ==
    get_cache_key(config.provider, config.model,
                  <<[role |-> "user", content |-> message]>>,
                  <<Item("max_tokens", PyInt(MAX_TOKENS))>>)

ProviderConfigs == {get_provider_config(p) : p \in ProviderNames}

(* message1, message2 of run_no_cache_baseline *)
BaselineMessages ==
    {"What color is the sky on a clear day?", "How many legs does a spider have?"}

(* the same keys, computed once *)
KeyTable ==
    [config \in ProviderConfigs |->
        [m \in TestMessages \cup BaselineMessages |-> RequestKey(config, m)]]
CachedKey(config, message) == KeyTable[config][message]

(* what other clients of the shared server leave under a key *)
ForeignTexts ==
    {GarbageText, BinaryText, json_dumps(EmptyDict, FALSE), json_dumps(TextDict, FALSE)}

NoLocals ==
    [message |-> "", use_cache |-> FALSE, cache_key |-> NoKey,
     response |-> PyNone, content |-> "", upstream |-> "",
     reads |-> 0, writes |-> 0, computes |-> 0, warnings |-> 0, fresh |-> FALSE]

(* what a call handed back: the returned tuple, or the exception; with the  *)
(* store reads, store writes and upstream calls it made and the cache       *)
(* warnings it printed                                                      *)
NoResult ==
    [outcome |-> "none", content |-> "", hit |-> FALSE, err |-> "",
     key |-> NoKey, use_cache |-> FALSE, fresh |-> FALSE,
     reads |-> 0, writes |-> 0, computes |-> 0, warnings |-> 0]

Returned(l, content, hit) ==
    [outcome |-> "return", content |-> content, hit |-> hit, err |-> "",
     key |-> l.cache_key, use_cache |-> l.use_cache, fresh |-> l.fresh,
     reads |-> l.reads, writes |-> l.writes, computes |-> l.computes,
     warnings |-> l.warnings]

Raised(l, e) ==
    [outcome |-> "raise", content |-> "", hit |-> FALSE, err |-> e,
     key |-> l.cache_key, use_cache |-> l.use_cache, fresh |-> l.fresh,
     reads |-> l.reads, writes |-> l.writes, computes |-> l.computes,
     warnings |-> l.warnings]

Active(c) == pc[c] # "idle"

(* ghost: what the last set stored under a key was asked to store *)
NoWrite == [set |-> FALSE, value |-> PyNone, ttl |-> PyNone, at |-> 0, clean |-> FALSE]

(* ghost: hist.calls holds the results of the calls that followed one       *)
(* another, the last two of them, with the server reachable and nothing     *)
(* else touching it from the start of the first to now; hist.taint holds    *)
(* the callers whose running call was disturbed.                            *)
NoHistory == [calls |-> <<>>, taint |-> {}]

Completed(c, r) ==
    [calls |-> IF c \in hist.taint THEN <<>>
               ELSE IF hist.calls = <<>> THEN <<r>>
               ELSE <<hist.calls[Len(hist.calls)], r>>,
     taint |-> hist.taint \ {c}]

Disturbed == [calls |-> <<>>, taint |-> {c \in Callers : Active(c)}]

(* no handler surrounds client.chat.completions.create: what it raises leaves the function *)
PropagateWrapped(e) == "RuntimeError"
Propagate(e) == e

(* `if use_cache:` before the read (line 172) and before the write (line 194) *)
AlwaysRead(use_cache) == "get"
FirstStep(use_cache) == IF use_cache THEN "get" ELSE "create"

WritesBack(use_cache) == use_cache

(* a falsy cached_response falls through to the upstream call (line 180) *)
RetryRead == "get"
AfterMiss == "create"

(* the ttl make_cached_chat_request hands to cache.set: none *)
CallTtl == PyNone

Finish(c, r) ==
    /\ res' = [res EXCEPT ![c] = r]
    /\ loc' = [loc EXCEPT ![c] = NoLocals]
    /\ hist' = Completed(c, r)
    /\ pc' = [pc EXCEPT ![c] = "idle"]

Continue(c, l, at) ==
    /\ res' = res
    /\ loc' = [loc EXCEPT ![c] = l]
    /\ hist' = hist
    /\ pc' = [pc EXCEPT ![c] = at]

(* lines 159-172: build the key, decide whether to consult the cache *)
Call(c, message, use_cache) ==
    /\ pc[c] = "idle"
    /\ LET key == CachedKey(cfg, message)
           others == {o \in Callers \ {c} : Active(o)}
       IN  /\ loc' = [loc EXCEPT ![c] =
                        [NoLocals EXCEPT !.message = message, !.use_cache = use_cache,
                                         !.cache_key = key, !.fresh = ~Live(key)]]
           /\ hist' = IF others # {} \/ ~up
                      THEN [calls |-> <<>>, taint |-> hist.taint \cup others \cup {c}]
                      ELSE [hist EXCEPT !.taint = @ \ {c}]
    /\ res' = [res EXCEPT ![c] = NoResult]
    /\ pc' = [pc EXCEPT ![c] = FirstStep(use_cache)]
    /\ UNCHANGED <<store, now, up, cfg, api, wlog, fp, conn, clr, run, prog, fbm, lbm, made>>

(* lines 173-178: cached_response = cache.get(cache_key); return it when truthy *)
TryCache(c) ==
    /\ pc[c] = "get"
    /\ LET got == CacheGet(loc[c].cache_key)
           l == [loc[c] EXCEPT !.reads = @ + 1,
                               !.warnings = IF got.warned THEN @ + 1 ELSE @]
       IN  IF got.raised # "none" THEN Finish(c, Raised(l, got.raised))
           ELSE IF Truthy(got.ret)
           THEN IF HasContent(got.ret)
                THEN Finish(c, Returned(l, Strip(ContentOf(got.ret)), TRUE))
                ELSE Finish(c, Raised(l, "KeyError"))
           ELSE Continue(c, l, AfterMiss)
    /\ store' = GetLeaves(store, loc[c].cache_key)
    /\ UNCHANGED <<now, up, cfg, api, wlog, fp, conn, clr, run, prog, fbm, lbm, made>>

(* the request a call is made for: the provider configuration and the message *)
Request(config, message) == [provider_config |-> config, message |-> message]

(* ghost: the upstream computed payload v for request d *)
Computed(d, v) ==
    IF d \in DOMAIN made THEN [made EXCEPT ![d] = @ \cup {v}] ELSE made

(* lines 181-191: the upstream call answers with a completion *)
CreateOk(c, text) ==
    /\ pc[c] = "create"
    /\ LET l == [loc[c] EXCEPT !.computes = @ + 1, !.upstream = "ok",
                               !.response = Completion(text), !.content = Strip(text)]
       IN  IF WritesBack(l.use_cache)
           THEN Continue(c, l, "set")
           ELSE Finish(c, Returned(l, l.content, FALSE))
    /\ made' = Computed(Request(cfg, loc[c].message), Completion(text))
    /\ UNCHANGED <<store, now, up, cfg, api, wlog, fp, conn, clr, run, prog, fbm, lbm>>

(* lines 181-187: the upstream call raises *)
CreateFails(c, e) ==
    /\ pc[c] = "create"
    /\ LET l == [loc[c] EXCEPT !.computes = @ + 1, !.upstream = e]
       IN  Finish(c, Raised(l, Propagate(e)))
    /\ UNCHANGED <<store, now, up, cfg, api, wlog, fp, conn, clr, run, prog, fbm, lbm, made>>

(* lines 194-198: cache.set(cache_key, response_dict), then return the miss *)
StoreResponse(c) ==
    /\ pc[c] = "set"
    /\ LET put == CacheSet(loc[c].cache_key, loc[c].response, CallTtl)
           l == [loc[c] EXCEPT !.writes = @ + 1,
                               !.warnings = IF put.warned THEN @ + 1 ELSE @]
       IN  /\ store' = put.store
           /\ IF put.raised # "none"
              THEN Finish(c, Raised(l, put.raised))
              ELSE Finish(c, Returned(l, l.content, FALSE))
    /\ wlog' = IF up /\ loc[c].cache_key \in DOMAIN wlog
               THEN [wlog EXCEPT ![loc[c].cache_key] =
                        [set |-> TRUE, value |-> loc[c].response, ttl |-> CallTtl,
                         at |-> now, clean |-> TRUE]]
               ELSE wlog
    /\ UNCHANGED <<now, up, cfg, api, fp, conn, clr, run, prog, fbm, lbm, made>>

-----------------------------------------------------------------------------
(* The environment of the cache: time, the network, other clients. *)

Tick ==
    /\ now + TickSeconds <= MaxTicks * TickSeconds
    /\ now' = now + TickSeconds
    /\ store' = Purge(store, now')
    /\ hist' = IF store' # store THEN Disturbed ELSE hist
    /\ wlog' = wlog
    /\ UNCHANGED <<up, cfg, pc, loc, res, api, fp, conn, clr, run, prog, fbm, lbm, made>>

StoreDown ==
    /\ up
    /\ up' = FALSE
    /\ hist' = Disturbed
    /\ UNCHANGED <<store, now, cfg, pc, loc, res, api, wlog, fp, conn, clr, run, prog, fbm, lbm, made>>

StoreUp ==
    /\ ~up
    /\ up' = TRUE
    /\ hist' = Disturbed
    /\ UNCHANGED <<store, now, cfg, pc, loc, res, api, wlog, fp, conn, clr, run, prog, fbm, lbm, made>>

Unclean(k) == [x \in DOMAIN wlog |-> IF x = k THEN [wlog[x] EXCEPT !.clean = FALSE] ELSE wlog[x]]

(* another client of the shared server overwrites a key; what it writes outlives the clock *)
ForeignWrite(k, raw) ==
    /\ ~Live(k) \/ EntryAt(k).raw # raw
    /\ store' = Put(store, k, raw, (MaxTicks + 1) * TickSeconds)
    /\ hist' = Disturbed
    /\ wlog' = Unclean(k)
    /\ UNCHANGED <<now, up, cfg, pc, loc, res, api, fp, conn, clr, run, prog, fbm, lbm, made>>

(* another client of the shared server deletes a key *)
ForeignDelete(k) ==
    /\ Live(k)
    /\ store' = Drop(store, {k})
    /\ hist' = Disturbed
    /\ wlog' = Unclean(k)
    /\ UNCHANGED <<now, up, cfg, pc, loc, res, api, fp, conn, clr, run, prog, fbm, lbm, made>>

-----------------------------------------------------------------------------
(* Spec: the demo's thread issues cached requests one after another. *)

NoApi ==
    [op |-> "none", key |-> NoKey, ret |-> PyNone, raised |-> "none", at |-> 0,
     wasUp |-> FALSE, before |-> [present |-> FALSE, raw |-> EmptyText]]

NoDescriptor == [provider |-> "", model |-> "", messages |-> <<>>, kwargs |-> <<>>]

NoFp == [d |-> NoDescriptor, key |-> NoKey, done |-> FALSE]

(* the cache object: state "none" (not built), "ready" (__init__ returned),  *)
(* "failed" (__init__ raised err)                                            *)
NotConnected == [state |-> "none", err |-> ""]
Connected == [state |-> "ready", err |-> ""]

(* clear(): where it is, its cursor (the keys the enumeration has still to   *)
(* visit), the page it holds, its count; ghosts: the matching keys there     *)
(* were when it started, the scan and delete requests it made, the keys its  *)
(* deletes removed                                                           *)
NoClear ==
    [pc |-> "idle", pattern |-> "", todo |-> {}, keys |-> {}, count |-> 0,
     ret |-> 0, err |-> "", start |-> {}, scans |-> 0, deletes |-> 0, removed |-> 0]

(* a float that is the quotient of two whole numbers, kept exact; times are  *)
(* whole numbers of clock ticks                                              *)
Float(num, den) == [num |-> num, den |-> den]

(* float("inf") *)
Inf == [num |-> 1, den |-> 0]

(* a test function (run_no_cache_baseline, run_simple_cache_test,            *)
(* run_cache_persistence_test): which it is, where it is, times, hits, and   *)
(* the dict it returned; hit_rate is the local of run_cache_persistence_test *)
NoReport ==
    [test |-> "", first_time |-> Float(0, 1), second_time |-> Float(0, 1),
     first_cache |-> "", second_cache |-> "", hit_rate |-> 0, speedup |-> Float(0, 1)]
NoRun == [pc |-> "idle", test |-> "", times |-> <<>>, hits |-> <<>>, report |-> NoReport]

(* main(): where it is, --clear-cache, the results it has appended, how the  *)
(* process ended ("" while it runs) and the exception that ended it          *)
NoMain ==
    [pc |-> "idle", clear_cache |-> FALSE, results |-> <<>>, exit |-> "", err |-> ""]

(* FallbackMetrics.__init__ *)
NoFallbackMetrics ==
    [total_requests |-> 0, successful_requests |-> 0, failed_requests |-> 0,
     fallback_triggered |-> 0, total_latency |-> 0, primary_latency |-> 0,
     fallback_latency |-> 0]

(* LoadBalanceMetrics.__init__ *)
NoLoadBalanceMetrics ==
    [total_requests |-> 0, successful_requests |-> 0, failed_requests |-> 0,
     total_latency |-> 0, latencies |-> <<>>, provider_distribution |-> << >>]

Init ==
    /\ store = << >>
    /\ now = 0
    /\ up = TRUE
    /\ cfg = get_provider_config(ProviderDefault)
    /\ pc = [c \in Callers |-> "idle"]
    /\ loc = [c \in Callers |-> NoLocals]
    /\ res = [c \in Callers |-> NoResult]
    /\ hist = NoHistory
    /\ api = NoApi
    /\ wlog = << >>
    /\ fp = NoFp
    /\ conn = Connected
    /\ clr = NoClear
    /\ run = NoRun
    /\ prog = NoMain
    /\ fbm = NoFallbackMetrics
    /\ lbm = NoLoadBalanceMetrics
    /\ made = << >>

Next ==
    \/ \E c \in MainCallers, m \in TestMessages, u \in BOOLEAN : Call(c, m, u)
    \/ \E c \in MainCallers : TryCache(c)
    \/ \E c \in MainCallers, text \in Contents : CreateOk(c, text)
    \/ \E c \in MainCallers, e \in UpstreamErrors : CreateFails(c, e)
    \/ \E c \in MainCallers : StoreResponse(c)
    \/ Tick
    \/ StoreDown
    \/ StoreUp
    \/ \E m \in TestMessages, raw \in ForeignTexts : ForeignWrite(CachedKey(cfg, m), raw)
    \/ \E m \in TestMessages : ForeignDelete(CachedKey(cfg, m))

Spec == Init /\ [][Next]_vars

-----------------------------------------------------------------------------
(* SpecRace: two processes run cached requests for one message against the  *)
(* same server, their steps interleaved in any order.                       *)

RaceMessage == "What is 2+2? Answer in one word."

RaceKeys == {CachedKey(get_provider_config(ProviderDefault), RaceMessage)}

InitRace ==
    /\ store = << >>
    /\ now = 0
    /\ up = TRUE
    /\ cfg = get_provider_config(ProviderDefault)
    /\ pc = [c \in Callers |-> "idle"]
    /\ loc = [c \in Callers |-> NoLocals]
    /\ res = [c \in Callers |-> NoResult]
    /\ hist = NoHistory
    /\ api = NoApi
    /\ wlog = [k \in RaceKeys |-> NoWrite]
    /\ fp = NoFp
    /\ conn = Connected
    /\ clr = NoClear
    /\ run = NoRun
    /\ prog = NoMain
    /\ fbm = NoFallbackMetrics
    /\ lbm = NoLoadBalanceMetrics
    /\ made = << >>

NextRace ==
    \/ \E c \in Callers : Call(c, RaceMessage, TRUE)
    \/ \E c \in Callers : TryCache(c)
    \/ \E c \in Callers, text \in Contents : CreateOk(c, text)
    \/ \E c \in Callers, e \in UpstreamErrors : CreateFails(c, e)
    \/ \E c \in Callers : StoreResponse(c)
    \/ Tick

SpecRace == InitRace /\ [][NextRace]_vars

-----------------------------------------------------------------------------
(* SpecStore: a client calls RedisCache.get and RedisCache.set directly. *)

(* one key of the cache *)
StoreKeys == {CachedKey(get_provider_config(ProviderDefault), "What is 2+2? Answer in one word.")}

SetValues == {Completion("pong"), EmptyDict}

TtlArgs == {PyNone, PyInt(0), PyInt(TickSeconds)}

StoreForeignTexts == {EmptyText, GarbageText, BinaryText}

Snapshot(k) == [present |-> Live(k), raw |-> EntryAt(k).raw]

(* cache.get(k) *)
ApiGet(k) ==
    /\ LET got == CacheGet(k)
       IN  api' = [op |-> "get", key |-> k, ret |-> got.ret, raised |-> got.raised,
                   at |-> now, wasUp |-> up, before |-> Snapshot(k)]
    /\ store' = GetLeaves(store, k)
    /\ UNCHANGED <<now, up, cfg, pc, loc, res, hist, wlog, fp, conn, clr, run, prog, fbm, lbm, made>>

(* cache.set(k, response, ttl) *)
ApiSet(k, response, ttl) ==
    /\ LET put == CacheSet(k, response, ttl)
       IN  /\ store' = put.store
           /\ api' = [op |-> "set", key |-> k, ret |-> PyNone, raised |-> put.raised,
                      at |-> now, wasUp |-> up, before |-> Snapshot(k)]
    /\ wlog' = IF up
               THEN [wlog EXCEPT ![k] = [set |-> TRUE, value |-> response, ttl |-> ttl,
                                         at |-> now, clean |-> TRUE]]
               ELSE wlog
    /\ UNCHANGED <<now, up, cfg, pc, loc, res, hist, fp, conn, clr, run, prog, fbm, lbm, made>>

InitStore ==
    /\ store = << >>
    /\ now = 0
    /\ up = TRUE
    /\ cfg = get_provider_config(ProviderDefault)
    /\ pc = [c \in Callers |-> "idle"]
    /\ loc = [c \in Callers |-> NoLocals]
    /\ res = [c \in Callers |-> NoResult]
    /\ hist = NoHistory
    /\ api = NoApi
    /\ wlog = [k \in StoreKeys |-> NoWrite]
    /\ fp = NoFp
    /\ conn = Connected
    /\ clr = NoClear
    /\ run = NoRun
    /\ prog = NoMain
    /\ fbm = NoFallbackMetrics
    /\ lbm = NoLoadBalanceMetrics
    /\ made = << >>

NextStore ==
    \/ \E k \in StoreKeys : ApiGet(k)
    \/ \E k \in StoreKeys, v \in SetValues, ttl \in TtlArgs : ApiSet(k, v, ttl)
    \/ Tick
    \/ StoreDown
    \/ StoreUp
    \/ \E k \in StoreKeys, raw \in StoreForeignTexts : ForeignWrite(k, raw)
    \/ \E k \in StoreKeys : ForeignDelete(k)

SpecStore == InitStore /\ [][NextStore]_vars

-----------------------------------------------------------------------------
(* SpecClear: a process builds the cache, writes entries and clears the      *)
(* namespace, on a server that also holds other data.                        *)

(* what the PING of __init__ ends with: the reply, or the exception redis-py *)
(* raises (refused connection, rejected password, connect timeout)           *)
ProbeOutcomes ==
    {"PONG", "redis.ConnectionError", "redis.AuthenticationError", "redis.TimeoutError"}

(* redis.exceptions: AuthenticationError derives from ConnectionError;       *)
(* TimeoutError derives from RedisError only                                 *)
IsRedisConnectionError(e) == e \in {"redis.ConnectionError", "redis.AuthenticationError"}

(* the outcomes the probe can have on a server that answers or does not *)
ProbeCan(probe) ==
    IF up THEN probe \in {"PONG", "redis.AuthenticationError"}
    ELSE probe \in {"redis.ConnectionError", "redis.TimeoutError"}

(* RedisCache.__init__: the client is built, then self.client.ping() *)
Construct(probe) ==
    /\ conn.state = "none"
    /\ ProbeCan(probe)
    /\ conn' = IF probe = "PONG" THEN Connected
               ELSE IF IsRedisConnectionError(probe)
                    THEN [state |-> "failed", err |-> "ConnectionError"]
                    ELSE [state |-> "failed", err |-> probe]
    /\ UNCHANGED <<store, now, up, cfg, pc, loc, res, hist, api, wlog, fp, clr, run, prog, fbm, lbm, made>>

(* the default of clear's pattern *)
AnyPattern == "*"
DEFAULT_PATTERN == "llm_cache:*"

(* glob match of a key against a pattern that is a prefix and a star *)
Matches(k, pattern) == pattern = "*" \/ pattern = k.ns \o "*"

(* count += len(keys) *)
PageCountOne(keys) == 1
PageCount(keys) == Cardinality(keys)

ClearKeys == {CachedKey(get_provider_config(ProviderDefault), m) : m \in TestMessages}

(* keys of other data on the shared server *)
OtherKeys == {[ns |-> "session:", digest |-> "42"], [ns |-> "llm_cache", digest |-> "_old"]}

OtherText == "other"

ClearRunning == clr.pc \in {"scan", "delete"}

(* lines 118-119: cursor = 0, count = 0 *)
ClearStart(pattern) ==
    /\ conn.state = "ready"
    /\ ~ClearRunning
    /\ clr' = [NoClear EXCEPT !.pc = "scan", !.pattern = pattern,
                              !.todo = {k \in DOMAIN store : Live(k)},
                              !.start = {k \in DOMAIN store : Live(k) /\ Matches(k, pattern)}]
    /\ UNCHANGED <<store, now, up, cfg, pc, loc, res, hist, api, wlog, fp, conn, run, prog, fbm, lbm, made>>

(* line 121: cursor, keys = self.client.scan(cursor, match=pattern, count=100) *)
(* the server visits the keys of `page` and returns those that match: a page *)
(* takes the cursor forward over keys not yet visited, and may hold keys     *)
(* that were visited before or written since (SCAN may return a key more     *)
(* than once); lines 122, 125: what comes next                               *)
ClearScan(page) ==
    /\ clr.pc = "scan"
    /\ page \cap clr.todo # {} \/ clr.todo = {}
    /\ IF ~up
       THEN clr' = [clr EXCEPT !.pc = "raised", !.err = "RedisError", !.scans = @ + 1]
       ELSE LET keys == {k \in page : Live(k) /\ Matches(k, clr.pattern)}
                todo == clr.todo \ page
            IN  clr' = [clr EXCEPT !.scans = @ + 1, !.keys = keys, !.todo = todo,
                                   !.pc = IF keys # {} THEN "delete"
                                          ELSE IF todo = {} THEN "done" ELSE "scan",
                                   !.ret = IF keys = {} /\ todo = {} THEN clr.count ELSE @]
    /\ UNCHANGED <<store, now, up, cfg, pc, loc, res, hist, api, wlog, fp, conn, run, prog, fbm, lbm, made>>

(* lines 123-127: self.client.delete of the page's keys; count += len(keys); *)
(* break and return when the cursor is 0                                     *)
ClearDelete ==
    /\ clr.pc = "delete"
    /\ IF ~up
       THEN /\ clr' = [clr EXCEPT !.pc = "raised", !.err = "RedisError", !.deletes = @ + 1]
            /\ store' = store
       ELSE LET count == clr.count + PageCount(clr.keys)
            IN  /\ store' = Drop(store, clr.keys)
                /\ clr' = [clr EXCEPT !.deletes = @ + 1, !.count = count, !.keys = {},
                                      !.removed = @ + Cardinality({k \in clr.keys : Live(k)}),
                                      !.pc = IF clr.todo = {} THEN "done" ELSE "scan",
                                      !.ret = IF clr.todo = {} THEN count ELSE @]
    /\ UNCHANGED <<now, up, cfg, pc, loc, res, hist, api, wlog, fp, conn, run, prog, fbm, lbm, made>>

InitClear ==
    /\ store = << >>
    /\ now = 0
    /\ up = TRUE
    /\ cfg = get_provider_config(ProviderDefault)
    /\ pc = [c \in Callers |-> "idle"]
    /\ loc = [c \in Callers |-> NoLocals]
    /\ res = [c \in Callers |-> NoResult]
    /\ hist = NoHistory
    /\ api = NoApi
    /\ wlog = [k \in ClearKeys \cup OtherKeys |-> NoWrite]
    /\ fp = NoFp
    /\ conn = NotConnected
    /\ clr = NoClear
    /\ run = NoRun
    /\ prog = NoMain
    /\ fbm = NoFallbackMetrics
    /\ lbm = NoLoadBalanceMetrics
    /\ made = << >>

NextClear ==
    \/ \E probe \in ProbeOutcomes : Construct(probe)
    \/ \E k \in ClearKeys :
          conn.state = "ready" /\ ~ClearRunning /\ ApiSet(k, Completion("pong"), PyNone)
    \/ ClearStart(DEFAULT_PATTERN)
    \/ \E page \in SUBSET (ClearKeys \cup OtherKeys) : ClearScan(page)
    \/ ClearDelete
    \/ StoreDown
    \/ StoreUp
    \/ \E k \in OtherKeys : ForeignWrite(k, OtherText)

SpecClear == InitClear /\ [][NextClear]_vars

-----------------------------------------------------------------------------
(* SpecClearRace: clear() runs while entries expire and other processes set  *)
(* and delete keys of the namespace on the same server.  SpecClearFair is    *)
(* the same with the steps of clear() taken whenever they can be: clear() is *)
(* a loop of blocking calls, each of which returns or raises.                *)

InitClearRace ==
    /\ store = << >>
    /\ now = 0
    /\ up = TRUE
    /\ cfg = get_provider_config(ProviderDefault)
    /\ pc = [c \in Callers |-> "idle"]
    /\ loc = [c \in Callers |-> NoLocals]
    /\ res = [c \in Callers |-> NoResult]
    /\ hist = NoHistory
    /\ api = NoApi
    /\ wlog = [k \in ClearKeys |-> NoWrite]
    /\ fp = NoFp
    /\ conn = Connected
    /\ clr = NoClear
    /\ run = NoRun
    /\ prog = NoMain
    /\ fbm = NoFallbackMetrics
    /\ lbm = NoLoadBalanceMetrics
    /\ made = << >>

ClearLoop ==
    \/ \E page \in SUBSET ClearKeys : ClearScan(page)
    \/ ClearDelete

NextClearRace ==
    \/ ClearStart(DEFAULT_PATTERN)
    \/ ClearLoop
    \/ \E k \in ClearKeys : ApiSet(k, Completion("pong"), PyNone)
    \/ \E k \in ClearKeys : ForeignDelete(k)
    \/ Tick
    \/ StoreDown
    \/ StoreUp

SpecClearRace == InitClearRace /\ [][NextClearRace]_vars

SpecClearFair == InitClearRace /\ [][NextClearRace]_vars /\ WF_vars(ClearLoop)

-----------------------------------------------------------------------------
(* SpecIntegrity: two processes run cached requests against the same server  *)
(* while entries expire and the namespace is cleared.  The first asks both   *)
(* test messages; the second repeats one of them and clears the cache, one   *)
(* thing at a time.                                                          *)

Requests == {Request(config, m) : config \in ProviderConfigs, m \in TestMessages}

IntegrityKeys == {CachedKey(get_provider_config(ProviderDefault), m) : m \in TestMessages}

(* what the upstream answers: each message gets an answer of its own, so     *)
(* that a payload tells which request it was computed for                    *)
AnswerTo(message) == IF message = RaceMessage THEN " four " ELSE "pong"

InitIntegrity ==
    /\ store = << >>
    /\ now = 0
    /\ up = TRUE
    /\ cfg = get_provider_config(ProviderDefault)
    /\ pc = [c \in Callers |-> "idle"]
    /\ loc = [c \in Callers |-> NoLocals]
    /\ res = [c \in Callers |-> NoResult]
    /\ hist = NoHistory
    /\ api = NoApi
    /\ wlog = << >>
    /\ fp = NoFp
    /\ conn = Connected
    /\ clr = NoClear
    /\ run = NoRun
    /\ prog = NoMain
    /\ fbm = NoFallbackMetrics
    /\ lbm = NoLoadBalanceMetrics
    /\ made = [d \in Requests |-> {}]

NextIntegrity ==
    \/ \E c \in MainCallers, m \in TestMessages : Call(c, m, TRUE)
    \/ \E c \in Callers \ MainCallers : ~ClearRunning /\ Call(c, RaceMessage, TRUE)
    \/ \E c \in Callers : TryCache(c)
    \/ \E c \in Callers : CreateOk(c, AnswerTo(loc[c].message))
    \/ \E c \in Callers : StoreResponse(c)
    \/ Tick
    \/ (\A c \in Callers \ MainCallers : ~Active(c)) /\ ClearStart(DEFAULT_PATTERN)
    \/ ClearScan(IntegrityKeys)
    \/ ClearDelete

SpecIntegrity == InitIntegrity /\ [][NextIntegrity]_vars

-----------------------------------------------------------------------------
(* The test functions of the demo.  SpecHarness: run_cache_persistence_test  *)
(* sends the same cached request num_requests times and reports, on a       *)
(* server other runs of the demo may have written to.                       *)

HarnessCaller == "c1"

HarnessMessage == "What is 2+2? Answer in one word."

HarnessKey == CachedKey(get_provider_config(ProviderDefault), HarnessMessage)

(* the messages a test function sends, in order *)
TestPlan(test) ==
    CASE test = "baseline" ->
            << "What color is the sky on a clear day?", "How many legs does a spider have?" >>
      [] test = "simple" ->
            << "What is the capital of France? Answer in one word.",
               "What is the capital of France? Answer in one word." >>
      [] test = "persistence" -> [i \in 1..NUM_REQUESTS |-> HarnessMessage]

(* use_cache: False in run_no_cache_baseline, True in the other two *)
UsesCache(test) == test # "baseline"

RECURSIVE SumHits(_)
(* sum(hits): True counts 1 *)
SumHits(hits) ==
    IF hits = <<>> THEN 0 ELSE (IF Head(hits) THEN 1 ELSE 0) + SumHits(Tail(hits))

RECURSIVE SumTimes(_)
(* sum(times[1:]) for the list given *)
SumTimes(times) ==
    IF times = <<>> THEN 0 ELSE Head(times) + SumTimes(Tail(times))

(* sum(hits) / len(hits) * 100, as `:.0f` prints it (len(hits) is 5: the     *)
(* quotient is a whole number)                                               *)
HitRate(hits) == (SumHits(hits) * 100) \div Len(hits)

(* "HIT" if hit else "MISS" *)
CacheStatus(hit) == IF hit THEN "HIT" ELSE "MISS"

(* run_simple_cache_test, line 227: time1 / time2 if time2 > 0 else inf *)
SimpleSpeedup(time1, time2) == IF time2 > 0 THEN Float(time1, time2) ELSE Inf

(* run_cache_persistence_test, line 320: sum(times[1:]) / len(times[1:]) *)
AvgCachedTime(times) ==
    IF Len(times) > 1 THEN Float(SumTimes(Tail(times)), Len(Tail(times))) ELSE Float(0, 1)

(* line 321: first_time / avg_cached_time if avg_cached_time > 0 else 0 *)
PersistenceSpeedup(first_time, avg_cached_time) ==
    IF avg_cached_time.num > 0
    THEN Float(first_time * avg_cached_time.den, avg_cached_time.num)
    ELSE Float(0, 1)

(* the dict a test function returns *)
Report(test, times, hits) ==
    CASE test = "baseline" ->
            [test |-> "No Cache (Baseline)",
             first_time |-> Float(times[1], 1), second_time |-> Float(times[2], 1),
             first_cache |-> "N/A", second_cache |-> "N/A", hit_rate |-> 0,
             speedup |-> Float(1, 1)]
      [] test = "simple" ->
            [test |-> "Simple Cache (Redis)",
             first_time |-> Float(times[1], 1), second_time |-> Float(times[2], 1),
             first_cache |-> CacheStatus(hits[1]), second_cache |-> CacheStatus(hits[2]),
             hit_rate |-> 0,
             speedup |-> SimpleSpeedup(times[1], times[2])]
      [] test = "persistence" ->
            [test |-> "Cache Persistence",
             first_time |-> Float(times[1], 1), second_time |-> AvgCachedTime(times),
             first_cache |-> "MISS",
             second_cache |-> "HIT (" \o ToString(HitRate(hits)) \o "%)",
             hit_rate |-> HitRate(hits),
             speedup |-> PersistenceSpeedup(times[1], AvgCachedTime(times))]

(* the test function is entered: its messages, times = [], hits = [] *)
HarnessStart(test) ==
    /\ run.pc = "idle"
    /\ pc[HarnessCaller] = "idle"
    /\ run' = [NoRun EXCEPT !.pc = "loop", !.test = test]
    /\ res' = [res EXCEPT ![HarnessCaller] = NoResult]
    /\ UNCHANGED <<store, now, up, cfg, pc, loc, hist, api, wlog, fp, conn, clr, prog, fbm, lbm, made>>

(* the next request of the test: make_cached_chat_request is called *)
HarnessRequest ==
    /\ run.pc = "loop"
    /\ Len(run.hits) < Len(TestPlan(run.test))
    /\ res[HarnessCaller].outcome = "none"
    /\ Call(HarnessCaller, TestPlan(run.test)[Len(run.hits) + 1], UsesCache(run.test))

(* the call returned (answer, elapsed, hit): the time and the flag are kept *)
HarnessCollect(elapsed) ==
    /\ run.pc = "loop"
    /\ pc[HarnessCaller] = "idle"
    /\ res[HarnessCaller].outcome = "return"
    /\ run' = [run EXCEPT !.times = Append(@, elapsed),
                          !.hits = Append(@, res[HarnessCaller].hit)]
    /\ res' = [res EXCEPT ![HarnessCaller] = NoResult]
    /\ UNCHANGED <<store, now, up, cfg, pc, loc, hist, api, wlog, fp, conn, clr, prog, fbm, lbm, made>>

(* the call raised: the exception leaves the test function *)
HarnessAbort ==
    /\ run.pc = "loop"
    /\ pc[HarnessCaller] = "idle"
    /\ res[HarnessCaller].outcome = "raise"
    /\ run' = [run EXCEPT !.pc = "aborted"]
    /\ UNCHANGED <<store, now, up, cfg, pc, loc, res, hist, api, wlog, fp, conn, clr, prog, fbm, lbm, made>>

(* the statistics and the returned dict *)
HarnessReport ==
    /\ run.pc = "loop"
    /\ Len(run.hits) = Len(TestPlan(run.test))
    /\ run' = [run EXCEPT !.pc = "done", !.report = Report(run.test, run.times, run.hits)]
    /\ UNCHANGED <<store, now, up, cfg, pc, loc, res, hist, api, wlog, fp, conn, clr, prog, fbm, lbm, made>>

(* what the clock measures in SpecHarness and SpecMain: no time for a hit *)
Elapsed(hit) == IF hit THEN 0 ELSE 2

InitHarness ==
    /\ store = << >>
    /\ now = 0
    /\ up = TRUE
    /\ cfg = get_provider_config(ProviderDefault)
    /\ pc = [c \in Callers |-> "idle"]
    /\ loc = [c \in Callers |-> NoLocals]
    /\ res = [c \in Callers |-> NoResult]
    /\ hist = NoHistory
    /\ api = NoApi
    /\ wlog = [k \in {HarnessKey} |-> NoWrite]
    /\ fp = NoFp
    /\ conn = Connected
    /\ clr = NoClear
    /\ run = NoRun
    /\ prog = NoMain
    /\ fbm = NoFallbackMetrics
    /\ lbm = NoLoadBalanceMetrics
    /\ made = << >>

NextHarness ==
    \/ HarnessStart("persistence")
    \/ HarnessRequest
    \/ HarnessCollect(Elapsed(res[HarnessCaller].hit))
    \/ HarnessAbort
    \/ HarnessReport
    \/ TryCache(HarnessCaller)
    \/ CreateOk(HarnessCaller, "pong")
    \/ \E e \in UpstreamErrors : CreateFails(HarnessCaller, e)
    \/ StoreResponse(HarnessCaller)
    \/ Tick
    \/ StoreDown
    \/ StoreUp
    \/ ForeignWrite(HarnessKey, json_dumps(Completion("pong"), FALSE))

SpecHarness == InitHarness /\ [][NextHarness]_vars

(* SpecTiming: run_simple_cache_test or run_cache_persistence_test on a      *)
(* server nothing disturbs, the clock measuring any of these times for a     *)
(* call (a call can take less than the clock resolves: 0).                   *)

Latencies == {0, 2}

NextTiming ==
    \/ \E test \in {"simple", "persistence"} : HarnessStart(test)
    \/ HarnessRequest
    \/ \E t \in Latencies : HarnessCollect(t)
    \/ HarnessAbort
    \/ HarnessReport
    \/ TryCache(HarnessCaller)
    \/ CreateOk(HarnessCaller, "pong")
    \/ \E e \in UpstreamErrors : CreateFails(HarnessCaller, e)
    \/ StoreResponse(HarnessCaller)

SpecTiming == InitHarness /\ [][NextTiming]_vars

-----------------------------------------------------------------------------
(* SpecMain: main() from the point where the RedisCache object is built:     *)
(* the optional cache.clear(), the three test functions in order, the        *)
(* results table; the server may stop and start answering at any moment and  *)
(* the upstream may fail any request.                                        *)

(* the test functions in the order main() calls them *)
Tests == <<"baseline", "simple", "persistence">>

(* what an earlier run of the demo left on the server *)
EarlierRun ==
    Put(<< >>, HarnessKey, json_dumps(Completion("pong"), FALSE), CACHE_MAX_AGE)

MainRunning == prog.pc \in {"clear", "tests"}

(* lines 442-447: if args.clear_cache: ...; results = [] *)
MainStart(clear_cache) ==
    /\ prog.pc = "idle"
    /\ conn.state = "ready"
    /\ prog' = [NoMain EXCEPT !.pc = IF clear_cache THEN "clear" ELSE "tests",
                              !.clear_cache = clear_cache]
    /\ UNCHANGED <<store, now, up, cfg, pc, loc, res, hist, api, wlog, fp, conn, clr, run, fbm, lbm, made>>

(* line 444: cache.clear() is called *)
MainClear ==
    /\ prog.pc = "clear"
    /\ clr.pc = "idle"
    /\ ClearStart(DEFAULT_PATTERN)

(* lines 444-447: clear() returned its count, which is printed *)
MainCleared ==
    /\ prog.pc = "clear"
    /\ clr.pc = "done"
    /\ prog' = [prog EXCEPT !.pc = "tests"]
    /\ UNCHANGED <<store, now, up, cfg, pc, loc, res, hist, api, wlog, fp, conn, clr, run, fbm, lbm, made>>

(* line 444 is outside the try of line 449: what clear() raises leaves       *)
(* main() and ends the process with a traceback                              *)
MainCrash ==
    /\ prog.pc = "clear"
    /\ clr.pc = "raised"
    /\ prog' = [prog EXCEPT !.pc = "exited", !.exit = "uncaught", !.err = clr.err]
    /\ UNCHANGED <<store, now, up, cfg, pc, loc, res, hist, api, wlog, fp, conn, clr, run, fbm, lbm, made>>

(* lines 451, 454, 457: the next test function is called *)
MainTest ==
    /\ prog.pc = "tests"
    /\ Len(prog.results) < Len(Tests)
    /\ HarnessStart(Tests[Len(prog.results) + 1])

(* lines 451-463: results.append of what the test function returned; after   *)
(* the third, print_results_table and the success message                    *)
MainCollect ==
    /\ prog.pc = "tests"
    /\ run.pc = "done"
    /\ LET results == Append(prog.results, run.report)
       IN  prog' = IF Len(results) = Len(Tests)
                   THEN [prog EXCEPT !.results = results, !.pc = "exited", !.exit = "ok"]
                   ELSE [prog EXCEPT !.results = results]
    /\ run' = NoRun
    /\ UNCHANGED <<store, now, up, cfg, pc, loc, res, hist, api, wlog, fp, conn, clr, fbm, lbm, made>>

(* lines 464-469: except Exception: the error is printed, sys.exit(1) *)
MainFail ==
    /\ prog.pc = "tests"
    /\ run.pc = "aborted"
    /\ prog' = [prog EXCEPT !.pc = "exited", !.exit = "error", !.err = res[HarnessCaller].err]
    /\ UNCHANGED <<store, now, up, cfg, pc, loc, res, hist, api, wlog, fp, conn, clr, run, fbm, lbm, made>>

InitMain ==
    /\ store \in {<< >>, EarlierRun}
    /\ now = 0
    /\ up = TRUE
    /\ cfg = get_provider_config(ProviderDefault)
    /\ pc = [c \in Callers |-> "idle"]
    /\ loc = [c \in Callers |-> NoLocals]
    /\ res = [c \in Callers |-> NoResult]
    /\ hist = NoHistory
    /\ api = NoApi
    /\ wlog = << >>
    /\ fp = NoFp
    /\ conn = Connected
    /\ clr = NoClear
    /\ run = NoRun
    /\ prog = NoMain
    /\ fbm = NoFallbackMetrics
    /\ lbm = NoLoadBalanceMetrics
    /\ made = << >>

NextMain ==
    \/ \E clear_cache \in BOOLEAN : MainStart(clear_cache)
    \/ MainClear
    \/ MainRunning /\ ClearScan(DOMAIN store)
    \/ MainRunning /\ ClearDelete
    \/ MainCleared
    \/ MainCrash
    \/ MainTest
    \/ HarnessRequest
    \/ HarnessCollect(Elapsed(res[HarnessCaller].hit))
    \/ HarnessAbort
    \/ HarnessReport
    \/ MainCollect
    \/ MainFail
    \/ TryCache(HarnessCaller)
    \/ CreateOk(HarnessCaller, "pong")
    \/ \E e \in UpstreamErrors : CreateFails(HarnessCaller, e)
    \/ StoreResponse(HarnessCaller)
    \/ MainRunning /\ StoreDown
    \/ MainRunning /\ StoreUp

SpecMain == InitMain /\ [][NextMain]_vars

-----------------------------------------------------------------------------
(* SpecKey: get_cache_key applied to a request descriptor. *)

Providers == {"ollama", "openai"}
Models == {"llama3", "openai/llama-fp8"}

Messages ==
    { [role |-> "user", content |-> "ping"],
      [role |-> "system", content |-> "ping"],
      [role |-> "user", content |-> "pong"] }

ParamItems ==
    { Item("max_tokens", PyInt(MAX_TOKENS)), Item("max_tokens", PyInt(5)),
      Item("temperature", PyInt(0)) }

SeqsUpTo(S, n) == UNION {[1..m -> S] : m \in 0..n}

MessageLists == SeqsUpTo(Messages, MaxMsgs)

(* keyword arguments: any insertion order, no name twice *)
KwargLists ==
    {kw \in SeqsUpTo(ParamItems, MaxParams) :
        \A i, j \in 1..Len(kw) : i # j => kw[i].k # kw[j].k}

Descriptors ==
    [provider : Providers, model : Models, messages : MessageLists, kwargs : KwargLists]

KeyOf(d) == get_cache_key(d.provider, d.model, d.messages, d.kwargs)

(* every descriptor with its key, computed once *)
DescriptorKeys == {[d |-> d, key |-> KeyOf(d)] : d \in Descriptors}

ItemSet(kw) == {kw[i] : i \in 1..Len(kw)}

(* the same request: the same fields, the parameters in any order *)
SameRequest(d, e) ==
    /\ d.provider = e.provider
    /\ d.model = e.model
    /\ d.messages = e.messages
    /\ ItemSet(d.kwargs) = ItemSet(e.kwargs)

Fingerprint ==
    /\ ~fp.done
    /\ fp' = [fp EXCEPT !.key = KeyOf(fp.d), !.done = TRUE]
    /\ UNCHANGED <<store, now, up, cfg, pc, loc, res, hist, api, wlog, conn, clr, run, prog, fbm, lbm, made>>

InitKey ==
    /\ store = << >>
    /\ now = 0
    /\ up = TRUE
    /\ cfg = get_provider_config(ProviderDefault)
    /\ pc = [c \in Callers |-> "idle"]
    /\ loc = [c \in Callers |-> NoLocals]
    /\ res = [c \in Callers |-> NoResult]
    /\ hist = NoHistory
    /\ api = NoApi
    /\ wlog = << >>
    /\ fp \in {[d |-> d, key |-> NoKey, done |-> FALSE] : d \in Descriptors}
    /\ conn = Connected
    /\ clr = NoClear
    /\ run = NoRun
    /\ prog = NoMain
    /\ fbm = NoFallbackMetrics
    /\ lbm = NoLoadBalanceMetrics
    /\ made = << >>

NextKey == Fingerprint

SpecKey == InitKey /\ [][NextKey]_vars

-----------------------------------------------------------------------------
(* SpecMetrics: the metrics accumulators of the fallback and load-balance    *)
(* demos, fed by a test loop that records one outcome per request.           *)

MaxRecords == 3     \* recordings made on each accumulator

(* latencies as the clock measured them, in milliseconds *)
MetricLatencies == {1, 2}

(* provider_used: the x-portkey-provider header, "unknown" without it *)
MetricProviders == {"ollama", "unknown"}

(* FallbackMetrics.record_success(latency, used_fallback) *)
FallbackRecordSuccess(m, latency, used_fallback) ==
    [m EXCEPT !.total_requests = @ + 1,
              !.successful_requests = @ + 1,
              !.total_latency = @ + latency,
              !.fallback_triggered = IF used_fallback THEN @ + 1 ELSE @,
              !.fallback_latency = IF used_fallback THEN @ + latency ELSE @,
              !.primary_latency = IF used_fallback THEN @ ELSE @ + latency]

(* a failure that is left out of the total *)
FallbackRecordFailureUncounted(m, latency) ==
    [m EXCEPT !.failed_requests = @ + 1, !.total_latency = @ + latency]

(* FallbackMetrics.record_failure(latency) *)
FallbackRecordFailure(m, latency) ==
    [m EXCEPT !.total_requests = @ + 1,
              !.failed_requests = @ + 1,
              !.total_latency = @ + latency]

(* Counter: c[key] += 1, a missing key counting 0 *)
CounterAdd(c, key) ==
    [k \in DOMAIN c \cup {key} |->
        (IF k \in DOMAIN c THEN c[k] ELSE 0) + (IF k = key THEN 1 ELSE 0)]

(* LoadBalanceMetrics.record_success(latency, provider) *)
LoadBalanceRecordSuccess(m, latency, provider) ==
    [m EXCEPT !.total_requests = @ + 1,
              !.successful_requests = @ + 1,
              !.total_latency = @ + latency,
              !.latencies = Append(@, latency),
              !.provider_distribution = CounterAdd(@, provider)]

(* LoadBalanceMetrics.record_failure(latency) *)
LoadBalanceRecordFailure(m, latency) ==
    [m EXCEPT !.total_requests = @ + 1,
              !.failed_requests = @ + 1,
              !.total_latency = @ + latency]

(* metrics.record_success(latency, used_fallback=...) in a fallback test loop *)
FallbackSuccess(latency, used_fallback) ==
    /\ fbm.total_requests < MaxRecords
    /\ fbm' = FallbackRecordSuccess(fbm, latency, used_fallback)
    /\ UNCHANGED <<store, now, up, cfg, pc, loc, res, hist, api, wlog, fp, conn, clr, run, prog, lbm, made>>

(* metrics.record_failure(latency) in a fallback test loop *)
FallbackFailure(latency) ==
    /\ fbm.total_requests < MaxRecords
    /\ fbm' = FallbackRecordFailure(fbm, latency)
    /\ UNCHANGED <<store, now, up, cfg, pc, loc, res, hist, api, wlog, fp, conn, clr, run, prog, lbm, made>>

(* metrics.record_success(latency, provider or "unknown") in a load-balance test loop *)
LoadBalanceSuccess(latency, provider) ==
    /\ lbm.total_requests < MaxRecords
    /\ lbm' = LoadBalanceRecordSuccess(lbm, latency, provider)
    /\ UNCHANGED <<store, now, up, cfg, pc, loc, res, hist, api, wlog, fp, conn, clr, run, prog, fbm, made>>

(* metrics.record_failure(latency) in a load-balance test loop *)
LoadBalanceFailure(latency) ==
    /\ lbm.total_requests < MaxRecords
    /\ lbm' = LoadBalanceRecordFailure(lbm, latency)
    /\ UNCHANGED <<store, now, up, cfg, pc, loc, res, hist, api, wlog, fp, conn, clr, run, prog, fbm, made>>

InitMetrics ==
    /\ store = << >>
    /\ now = 0
    /\ up = TRUE
    /\ cfg = get_provider_config(ProviderDefault)
    /\ pc = [c \in Callers |-> "idle"]
    /\ loc = [c \in Callers |-> NoLocals]
    /\ res = [c \in Callers |-> NoResult]
    /\ hist = NoHistory
    /\ api = NoApi
    /\ wlog = << >>
    /\ fp = NoFp
    /\ conn = Connected
    /\ clr = NoClear
    /\ run = NoRun
    /\ prog = NoMain
    /\ fbm = NoFallbackMetrics
    /\ lbm = NoLoadBalanceMetrics
    /\ made = << >>

NextMetrics ==
    \/ \E t \in MetricLatencies, f \in BOOLEAN : FallbackSuccess(t, f)
    \/ \E t \in MetricLatencies : FallbackFailure(t)
    \/ \E t \in MetricLatencies, p \in MetricProviders : LoadBalanceSuccess(t, p)
    \/ \E t \in MetricLatencies : LoadBalanceFailure(t)

SpecMetrics == InitMetrics /\ [][NextMetrics]_vars

-----------------------------------------------------------------------------
(* Properties of make_cached_chat_request (Spec). *)

(* the two calls of hist.calls, when there are two: both cached requests for the same key *)
TwoCachedCalls ==
    /\ Len(hist.calls) = 2
    /\ hist.calls[1].use_cache
    /\ hist.calls[2].use_cache
    /\ hist.calls[1].key = hist.calls[2].key

(* C1: miss-then-hit.  Two cached requests for the same descriptor that      *)
(* follow one another on a reachable server, the first starting with no      *)
(* entry under the key and nothing else touching the server (no expiry, no   *)
(* invalidation, no other writer) up to the end of the second: the first     *)
(* returns hit = false, the second returns hit = true, and the upstream      *)
(* computation ran exactly once over both.                                   *)
MissThenHit ==
    (TwoCachedCalls /\ hist.calls[1].fresh /\ hist.calls[1].outcome = "return")
        => /\ ~hist.calls[1].hit
           /\ hist.calls[2].outcome = "return"
           /\ hist.calls[2].hit
           /\ hist.calls[1].computes + hist.calls[2].computes = 1

MissThenHitWitness ==
    /\ TwoCachedCalls
    /\ hist.calls[1].fresh
    /\ hist.calls[1].outcome = "return"
    /\ ~hist.calls[1].hit
    /\ hist.calls[2].hit
    /\ hist.calls[2].content = hist.calls[1].content

(* the value a set could have stored under k is there, unexpired *)
HoldsPayload(k) ==
    /\ Live(k)
    /\ Parses(EntryAt(k).raw)
    /\ json_loads(EntryAt(k).raw).t = "dict"

(* C2: with use_cache = true, whenever the reachable server holds an         *)
(* unexpired entry under the key, whatever payload it is (the empty one      *)
(* too), the read ends the call with hit = true and no upstream call.        *)
HitWheneverPresent ==
    [][\A c \in Callers :
        (TryCache(c) /\ up /\ HoldsPayload(loc[c].cache_key))
            => /\ pc'[c] = "idle"
               /\ res'[c].outcome = "return"
               /\ res'[c].hit
               /\ res'[c].computes = 0]_vars

(* what StoreResponse leaves under the key when it wrote with `seconds` to live *)
WroteBack(c, seconds) ==
    LET k == loc[c].cache_key
    IN  /\ res'[c].outcome = "return"
        /\ ~res'[c].hit
        /\ res'[c].content = Strip(ContentOf(loc[c].response))
        /\ k \in DOMAIN store'
        /\ store'[k] = [raw |-> json_dumps(loc[c].response, FALSE), exp |-> now + seconds]

(* C3, as claimed: after a miss whose upstream call succeeded, on a          *)
(* reachable server, the entry under the key expires after the ttl given     *)
(* for the call.                                                             *)
MissStoresWithCallTtl ==
    [][\A c \in Callers :
        (StoreResponse(c) /\ up) => (CallTtl.t = "int" /\ WroteBack(c, CallTtl.n))]_vars

(* C3, amended: after a miss whose upstream call succeeded, on a reachable   *)
(* server, the call returns hit = false with the computed content and the    *)
(* key holds the computed payload, expiring after the cache's default_ttl    *)
(* (CACHE_MAX_AGE): the call gives no ttl of its own.                        *)
MissStoresWithDefaultTtl ==
    [][\A c \in Callers : (StoreResponse(c) /\ up) => WroteBack(c, CACHE_MAX_AGE)]_vars

MissStoresWitness ==
    \E c \in Callers :
        /\ res[c].outcome = "return"
        /\ res[c].use_cache
        /\ ~res[c].hit
        /\ res[c].writes = 1
        /\ res[c].key \in DOMAIN store
        /\ store[res[c].key].exp = now + CACHE_MAX_AGE
        /\ Parses(store[res[c].key].raw)
        /\ HasContent(json_loads(store[res[c].key].raw))
        /\ Strip(ContentOf(json_loads(store[res[c].key].raw))) = res[c].content

(* a cached request for a key with no entry failed upstream, and the next    *)
(* request for the key followed it undisturbed                               *)
AfterFailure ==
    TwoCachedCalls /\ hist.calls[1].fresh /\ hist.calls[1].outcome = "raise"

(* C4: an upstream failure leaves the function as the exception the          *)
(* upstream raised, the step leaves the store as it was, the call wrote      *)
(* nothing, and a following call for the same descriptor is a miss again.    *)
FailureNotCached ==
    [][/\ \A c \in Callers, e \in UpstreamErrors :
            CreateFails(c, e) => /\ store' = store
                                 /\ res'[c].outcome = "raise"
                                 /\ res'[c].err = e
                                 /\ res'[c].writes = 0
       /\ AfterFailure' => (~hist'.calls[2].hit /\ hist'.calls[2].computes = 1)]_vars

FailureNotCachedWitness ==
    /\ AfterFailure
    /\ hist.calls[1].err \in UpstreamErrors
    /\ hist.calls[1].writes = 0
    /\ hist.calls[2].outcome = "return"
    /\ ~hist.calls[2].hit

(* caller c takes a step of its call *)
CallerStep(c) == pc'[c] # pc[c] \/ loc'[c] # loc[c]

(* C5: bypass.  A call with use_cache = false goes straight upstream, none   *)
(* of its steps changes the store, and it ends having read nothing, written  *)
(* nothing and called upstream exactly once, with hit = false when it        *)
(* returns; whatever the store holds.                                        *)
Bypass ==
    [][\A c \in Callers :
        /\ (pc[c] = "idle" /\ pc'[c] # "idle" /\ ~loc'[c].use_cache)
                => (pc'[c] = "create" /\ store' = store)
        /\ (pc[c] # "idle" /\ ~loc[c].use_cache /\ CallerStep(c))
                => /\ store' = store
                   /\ pc'[c] = "idle"
                   /\ res'[c].reads = 0
                   /\ res'[c].writes = 0
                   /\ res'[c].computes = 1
                   /\ res'[c].outcome = "return" => ~res'[c].hit]_vars

BypassWitness ==
    \E c \in Callers :
        /\ res[c].outcome = "return"
        /\ ~res[c].use_cache
        /\ ~res[c].fresh
        /\ res[c].computes = 1
        /\ HoldsPayload(res[c].key)
        /\ HasContent(json_loads(EntryAt(res[c].key).raw))

(* C11: degraded store.  While the server is unreachable, get returns None   *)
(* for every key without raising, the read of a cached request falls         *)
(* through to the upstream call, and its write returns without raising and   *)
(* leaves the store alone: the request ends as a bypass would, returning     *)
(* hit = false with the computed content after exactly one upstream call.    *)
DegradedStore ==
    [][\A c \in Callers :
        /\ (TryCache(c) /\ ~up)
                => /\ \A m \in TestMessages :
                        CacheGet(CachedKey(cfg, m)) =
                            [ret |-> PyNone, raised |-> "none", warned |-> TRUE]
                   /\ pc'[c] = "create"
                   /\ store' = store
        /\ (StoreResponse(c) /\ ~up)
                => /\ store' = store
                   /\ res'[c].outcome = "return"
                   /\ ~res'[c].hit
                   /\ res'[c].content = Strip(ContentOf(loc[c].response))
                   /\ res'[c].computes = 1]_vars

DegradedStoreWitness ==
    \E c \in Callers :
        /\ ~up
        /\ res[c].outcome = "return"
        /\ res[c].use_cache
        /\ ~res[c].hit
        /\ res[c].reads = 1 /\ res[c].writes = 1 /\ res[c].computes = 1
        /\ res[c].warnings = 2
        /\ res[c].fresh
        /\ res[c].key \notin DOMAIN store

(* C12: whatever value the reachable server holds under the key, a value     *)
(* that deserializes but has not the shape of a response included, the read  *)
(* of a cached request ends in a hit or falls through to the upstream call:  *)
(* it never leaves the function with an exception.                           *)
NeverFailsOnStoredValue ==
    [][\A c \in Callers :
        (TryCache(c) /\ up /\ HoldsPayload(loc[c].cache_key))
            => \/ pc'[c] = "create"
               \/ (pc'[c] = "idle" /\ res'[c].outcome = "return" /\ res'[c].hit)]_vars

(* C13: a call makes at most one store read, at most one store write and at  *)
(* most one upstream call, while it runs and when it has ended, whichever    *)
(* way it ends.                                                              *)
AtMostOnce ==
    \A c \in Callers :
        /\ loc[c].reads <= 1 /\ loc[c].writes <= 1 /\ loc[c].computes <= 1
        /\ res[c].reads <= 1 /\ res[c].writes <= 1 /\ res[c].computes <= 1

AtMostOnceWitness ==
    \E c \in Callers :
        /\ res[c].outcome = "return"
        /\ res[c].reads = 1 /\ res[c].writes = 1 /\ res[c].computes = 1

(* C14: duplicate-compute race.  Nothing keeps two callers from missing on   *)
(* the same key at once (the witness: both read a miss, both called          *)
(* upstream, both wrote), and a write replaces what the other caller wrote:  *)
(* as long as the entry lives, the store holds under the key the payload of  *)
(* the write that happened last.                                             *)
LastWriteWins ==
    \A k \in RaceKeys :
        (wlog[k].set /\ Live(k)) => EntryAt(k).raw = json_dumps(wlog[k].value, FALSE)

LastWriteWinsWitness ==
    /\ now = 0
    /\ \A c \in Callers :
          /\ pc[c] = "idle"
          /\ res[c].outcome = "return"
          /\ ~res[c].hit
          /\ res[c].reads = 1 /\ res[c].computes = 1 /\ res[c].writes = 1
          /\ res[c].key \in RaceKeys
    /\ res["c1"].content # res["c2"].content
    /\ \E k \in RaceKeys :
          /\ Live(k)
          /\ EntryAt(k).raw = json_dumps(wlog[k].value, FALSE)
          /\ Strip(ContentOf(wlog[k].value)) \in {res["c1"].content, res["c2"].content}

-----------------------------------------------------------------------------
(* Properties of get_cache_key (SpecKey). *)

(* C6: determinism.  Every descriptor with the same provider, model and      *)
(* messages and the same parameters in any insertion order gets the key of   *)
(* the descriptor that was fingerprinted.                                    *)
KeyDeterminism ==
    fp.done => \A e \in DescriptorKeys : SameRequest(fp.d, e.d) => e.key = fp.key

KeyDeterminismWitness ==
    /\ fp.done
    /\ Len(fp.d.kwargs) = 2
    /\ \E e \in DescriptorKeys :
          /\ e.d.kwargs # fp.d.kwargs
          /\ SameRequest(fp.d, e.d)
          /\ e.key = fp.key

(* C7: sensitivity.  Every descriptor that differs in provider, model, a     *)
(* message's role or content, the order of the messages, or a parameter's    *)
(* name or value is serialized to a different text and gets a different key: *)
(* a descriptor with the same digest or the same key is the same request.    *)
KeySensitivity ==
    fp.done => \A e \in DescriptorKeys :
                  (e.key.digest = fp.key.digest \/ e.key = fp.key) => SameRequest(fp.d, e.d)

KeySensitivityWitness ==
    /\ fp.done
    /\ Len(fp.d.messages) = 2
    /\ fp.d.messages[1] # fp.d.messages[2]
    /\ \E e \in DescriptorKeys :
          /\ e.d = [fp.d EXCEPT !.messages = <<fp.d.messages[2], fp.d.messages[1]>>]
          /\ e.key # fp.key

-----------------------------------------------------------------------------
(* Properties of RedisCache.get and RedisCache.set (SpecStore). *)

(* the time to live the write recorded in w asked for: the ttl passed, the   *)
(* default when none was passed                                              *)
AskedTtl(w) == IF w.ttl.t = "int" THEN w.ttl.n ELSE CACHE_MAX_AGE

(* the last set of key k went to the reachable server and nothing has        *)
(* overwritten or deleted the key since                                      *)
WrittenWithTtl(k) == wlog[k].set /\ wlog[k].clean

(* C8: TTL expiry.  On a reachable server, get returns the payload of a      *)
(* write made with TTL = T at every time before T has elapsed since the      *)
(* write and None at every time after T has elapsed; and whatever get        *)
(* returns is an entry of the store whose time has not come.                 *)
TtlExpiry ==
    [][\A k \in StoreKeys :
        ApiGet(k) =>
            /\ (up /\ WrittenWithTtl(k)) =>
                    /\ now < wlog[k].at + AskedTtl(wlog[k]) => api'.ret = wlog[k].value
                    /\ now > wlog[k].at + AskedTtl(wlog[k]) => api'.ret = PyNone
            /\ api'.ret # PyNone => (k \in DOMAIN store /\ now < store[k].exp)]_vars

(* C9: on a reachable server set(key, payload, ttl) leaves under the key the *)
(* payload with an expiry of exactly the ttl passed, whatever ttl is passed, *)
(* in place of what was there; the default is used only when none is passed. *)
SetUsesGivenTtl ==
    [][\A k \in StoreKeys, v \in SetValues, ttl \in TtlArgs :
        (ApiSet(k, v, ttl) /\ up) =>
            /\ k \in DOMAIN store'
            /\ store'[k] = [raw |-> json_dumps(v, FALSE),
                            exp |-> now + (IF ttl = PyNone THEN CACHE_MAX_AGE ELSE ttl.n)]]_vars

(* C10: get never raises; it returns None when the server is unreachable,    *)
(* when the stored value cannot be deserialized and when the key is absent,  *)
(* and it leaves the store as it was.                                        *)
GetNeverRaises ==
    [][\A k \in StoreKeys :
        ApiGet(k) =>
            /\ api'.raised = "none"
            /\ store' = store
            /\ (~up \/ ~Live(k) \/ ~Decodes(EntryAt(k).raw) \/ ~Parses(EntryAt(k).raw))
                    => api'.ret = PyNone]_vars

-----------------------------------------------------------------------------
(* Properties of RedisCache.clear and RedisCache.__init__ (SpecClear). *)

ClearStep == clr' # clr

(* C15: invalidation.  A clear() with the default pattern that returns,      *)
(* nothing but the clearing process touching the namespace, returns the      *)
(* number of entries there were under the namespace when it started (0 when  *)
(* there were none), none of these keys is in the store any more and get     *)
(* returns None for each of them.                                            *)
ClearCounts ==
    [][(ClearStep /\ clr'.pc = "done") =>
            /\ clr'.ret = Cardinality(clr'.start)
            /\ \A k \in clr'.start : k \notin DOMAIN store' /\ (CacheGet(k).ret = PyNone)'
            /\ \A k \in ClearKeys : ~Live(k)']_vars

ClearCountsWitness ==
    /\ clr.pc = "done"
    /\ clr.pattern = DEFAULT_PATTERN
    /\ clr.start = ClearKeys
    /\ clr.ret = Cardinality(ClearKeys)
    /\ clr.deletes = 2
    /\ \A k \in ClearKeys : k \notin DOMAIN store

(* C16: namespace scoping.  Every key get_cache_key produces carries the tag *)
(* 'llm_cache:'; every step of clear() with the default pattern deletes only *)
(* keys with the tag and leaves every key without it, and what it holds, as  *)
(* it was.                                                                   *)
ClearScoped ==
    [][ClearStep =>
            /\ \A e \in DescriptorKeys : e.key.ns = NAMESPACE
            /\ \A k \in ClearKeys : k.ns = NAMESPACE
            /\ \A k \in DOMAIN store :
                    \/ k \in DOMAIN store' /\ store'[k] = store[k]
                    \/ k.ns = NAMESPACE]_vars

ClearScopedWitness ==
    /\ clr.pc = "done"
    /\ clr.ret = Cardinality(ClearKeys)
    /\ \A k \in OtherKeys : k \in DOMAIN store /\ store[k].raw = OtherText
    /\ \A k \in ClearKeys : k \notin DOMAIN store

(* C17: a transport error while clear() enumerates or deletes is handled     *)
(* inside clear(): no step of it ends with an exception leaving the call.    *)
ClearSwallowsErrors ==
    [][(ClearStep /\ ClearRunning /\ ~up) => clr'.pc # "raised"]_vars

(* C18: whenever the probe of __init__ fails, for whatever reason, the       *)
(* construction fails with ConnectionError and there is no cache object; and *)
(* get, set and clear happen only on a cache whose probe succeeded.          *)
ConnectFailsFast ==
    [][/\ \A probe \in ProbeOutcomes :
            (Construct(probe) /\ probe # "PONG")
                => (conn'.state = "failed" /\ conn'.err = "ConnectionError")
       /\ (api' # api \/ ClearStep) => conn.state = "ready"]_vars

-----------------------------------------------------------------------------
(* Properties of run_cache_persistence_test (SpecHarness). *)

(* C20: the repeat-identical scenario reports what it observed: the hit rate *)
(* of its result is the share of its calls that returned hit = true, and the *)
(* outcome it reports for the first call is the hit flag the first call      *)
(* returned.                                                                 *)
ReportsObserved ==
    run.pc = "done" =>
        /\ Len(run.hits) = NUM_REQUESTS
        /\ run.report.hit_rate * NUM_REQUESTS = 100 * SumHits(run.hits)
        /\ run.report.first_cache = (IF run.hits[1] THEN "HIT" ELSE "MISS")

-----------------------------------------------------------------------------
(* Properties of the metrics accumulators (SpecMetrics). *)

RECURSIVE SumCounts(_)
SumCounts(c) ==
    IF DOMAIN c = {} THEN 0
    ELSE LET k == CHOOSE k \in DOMAIN c : TRUE
         IN  c[k] + SumCounts([x \in DOMAIN c \ {k} |-> c[x]])

(* C26: metrics accounting.  After any sequence of recordings on either      *)
(* accumulator, total_requests = successful_requests + failed_requests; each *)
(* recording increases total_requests by exactly one; and on the             *)
(* load-balance accumulator the number of recorded latencies and the sum of  *)
(* the per-provider counts both equal successful_requests.                   *)
MetricsAccounting ==
    [][/\ fbm'.total_requests = fbm'.successful_requests + fbm'.failed_requests
       /\ lbm'.total_requests = lbm'.successful_requests + lbm'.failed_requests
       /\ Len(lbm'.latencies) = lbm'.successful_requests
       /\ SumCounts(lbm'.provider_distribution) = lbm'.successful_requests
       /\ fbm' # fbm => fbm'.total_requests = fbm.total_requests + 1
       /\ lbm' # lbm => lbm'.total_requests = lbm.total_requests + 1]_vars

MetricsAccountingWitness ==
    /\ fbm.successful_requests = 2 /\ fbm.failed_requests = 1
    /\ fbm.fallback_triggered = 1
    /\ lbm.successful_requests = 2 /\ lbm.failed_requests = 1
    /\ DOMAIN lbm.provider_distribution = MetricProviders
    /\ Len(lbm.latencies) = 2

-----------------------------------------------------------------------------
(* Properties of RedisCache.clear among other clients (SpecClearRace,        *)
(* SpecClearFair).                                                           *)

(* C23: the count clear() returns is the number of keys its delete requests  *)
(* removed from the store, whatever expires and whatever other callers       *)
(* write and delete while it runs.                                           *)
ClearCountsRemoved ==
    clr.pc = "done" => clr.ret = clr.removed

(* clear() makes at most one delete request per page, and a delete request   *)
(* removes only keys of the page it follows                                  *)
ClearBatches ==
    [][ClearStep =>
            /\ clr'.deletes <= clr'.scans
            /\ clr'.deletes > clr.deletes => (clr.pc = "delete" /\ clr'.deletes = clr.deletes + 1)
            /\ (DOMAIN store \ DOMAIN store') \subseteq clr.keys]_vars

(* a running clear() ends: it returns or it raises *)
ClearEnds == ClearRunning ~> clr.pc \in {"done", "raised"}

(* the enumeration has returned cursor 0 to a running clear() *)
CursorZero == ClearRunning /\ clr.scans > 0 /\ clr.todo = {}

(* C27: clear() terminates.  A running clear() ends; once the enumeration    *)
(* has returned cursor 0, its next step ends the loop and returns the count; *)
(* and it makes at most one delete request per page, each of keys of that    *)
(* page only.                                                                *)
ClearTerminates ==
    /\ ClearEnds
    /\ [][(CursorZero /\ ClearStep) => (clr'.pc = "done" /\ clr'.ret = clr'.count)]_vars
    /\ ClearBatches

-----------------------------------------------------------------------------
(* Properties of a hit (SpecHarness). *)

(* C24: a cache hit leaves the store unchanged, the entry's expiry included; *)
(* and an entry written at time t with the default TTL, nothing else         *)
(* writing the key, is absent from t + TTL on, whatever hits it served.      *)
HitLeavesStore ==
    [][/\ \A c \in Callers : (TryCache(c) /\ res'[c].hit) => store' = store
       /\ (wlog'[HarnessKey].set /\ wlog'[HarnessKey].clean
                /\ now' >= wlog'[HarnessKey].at + CACHE_MAX_AGE)
            => (~Live(HarnessKey) /\ CacheGet(HarnessKey).ret = PyNone)']_vars

HitLeavesStoreWitness ==
    /\ run.hits = <<FALSE, TRUE, TRUE, TRUE>>
    /\ wlog[HarnessKey].set /\ wlog[HarnessKey].clean
    /\ wlog[HarnessKey].at = 0
    /\ now = CACHE_MAX_AGE
    /\ up
    /\ pc[HarnessCaller] = "create"
    /\ loc[HarnessCaller].reads = 1
    /\ loc[HarnessCaller].warnings = 0

-----------------------------------------------------------------------------
(* Properties of the store's contents (SpecIntegrity). *)

(* C25: cache integrity.  Requests that differ in provider, model or message *)
(* have different keys; every entry of the store lies under the key of a     *)
(* request and is, whole, a payload the upstream computed for a request      *)
(* with that key; a hit returns the content of a payload computed for the    *)
(* request it was asked for.                                                 *)
CacheIntegrity ==
    [][/\ \A d, e \in Requests :
            d # e => CachedKey(d.provider_config, d.message)
                        # CachedKey(e.provider_config, e.message)
       /\ \A k \in DOMAIN store' :
            \E d \in Requests :
                /\ k = CachedKey(d.provider_config, d.message)
                /\ \E v \in made'[d] : store'[k].raw = json_dumps(v, FALSE)
       /\ \A d \in Requests :
            LET k == CachedKey(d.provider_config, d.message)
            IN  k \in DOMAIN store' =>
                    \E v \in made'[d] : store'[k].raw = json_dumps(v, FALSE)
       /\ \A c \in Callers :
            (TryCache(c) /\ res'[c].hit) =>
                \E v \in made[Request(cfg, loc[c].message)] :
                    res'[c].content = Strip(ContentOf(v))]_vars

CacheIntegrityWitness ==
    \E c \in Callers, o \in Callers, d \in Requests, e \in Requests :
        /\ c # o /\ d # e
        /\ res[c].outcome = "return" /\ res[c].hit
        /\ res[c].key = CachedKey(d.provider_config, d.message)
        /\ res[o].outcome = "return" /\ res[o].hit
        /\ res[o].key = CachedKey(e.provider_config, e.message)
        /\ res[c].content # res[o].content
        /\ made[d] = {Completion("pong")}
        /\ made[e] = {Completion(" four ")}
        /\ clr.pc = "done" /\ clr.ret > 0
        /\ now > 0

-----------------------------------------------------------------------------
(* Properties of the test functions' statistics (SpecTiming). *)

(* C21: in the two-request and in the N-request scenario the reported        *)
(* speedup is the first latency divided by the mean of the later latencies   *)
(* when that mean is greater than 0, and +infinity when it is exactly 0.     *)
SpeedupDefined ==
    (run.pc = "done" /\ run.test \in {"simple", "persistence"}) =>
        LET first_latency == run.times[1]
            later == Tail(run.times)
            speedup == run.report.speedup
        IN  IF SumTimes(later) > 0
            THEN /\ speedup.den # 0
                 /\ speedup.num * SumTimes(later) = first_latency * Len(later) * speedup.den
            ELSE speedup = Inf

(* C22: a run of main() whose cache was built ends in one of two ways: all   *)
(* three test functions returned and the table was printed, or the run was   *)
(* aborted by an error of the upstream computation; whatever the server did  *)
(* in between, the clearing step included, it never ends the run otherwise.  *)
RunAbortsOnlyOnComputeError ==
    prog.pc = "exited" =>
        \/ prog.exit = "ok" /\ Len(prog.results) = Len(Tests)
        \/ prog.exit = "error" /\ prog.err \in UpstreamErrors

=============================================================================
